---- MODULE Spec2Model ----
(***************************************************************************)
(* A model of the investment dashboard in src/app.py: the name             *)
(* normalisation and market-cap formatting helpers, the metadata           *)
(* enrichment of load_data, and the Streamlit session (navigation state,   *)
(* company filter and detail view, chat assistant).                        *)
(*                                                                         *)
(* Text is modelled as a sequence of atomic pieces.  Names, queries,       *)
(* search terms and ticker lists are spelled character by character, so    *)
(* that lower(), strip(), replace(), split() and the substring test "in"   *)
(* are computed; the fixed labels of an f-string are single pieces.        *)
(* Python values are records tagged with their kind, because the code      *)
(* stores strings, numbers, None and the pandas missing value NaN in the   *)
(* same dictionary slots.                                                  *)
(***************************************************************************)
EXTENDS Integers, Sequences, FiniteSets, TLC

VARIABLES
    fn_pc, fn_arg, fn_out, fn_out2,      \* one call of a pure helper
    ld_pc, ld_json, ld_csv, ld_i,        \* load_data's enrichment loop
    data,                                \* what load_data returned (cached)
    selected_company, selected_sector,   \* st.session_state
    active_tab, first_visit, messages,
    view                                 \* what the last script run rendered

fnVars == <<fn_pc, fn_arg, fn_out, fn_out2>>
ldVars == <<ld_pc, ld_json, ld_csv, ld_i>>
ssVars == <<data, selected_company, selected_sector, active_tab, first_visit,
            messages, view>>
vars == <<fnVars, ldVars, ssVars>>

----------------------------------------------------------------------------
(* Bounds of the model *)

MaxNameLen == 3
MaxRows == 2
MaxTurns == 1

----------------------------------------------------------------------------
(* Text *)

UpperChars == <<"A","B","C","D","E","F","G","H","I","J","K","L","M",
                "N","O","P","Q","R","S","T","U","V","W","X","Y","Z">>
LowerChars == <<"a","b","c","d","e","f","g","h","i","j","k","l","m",
                "n","o","p","q","r","s","t","u","v","w","x","y","z">>
DigitChars == <<"0","1","2","3","4","5","6","7","8","9">>
Whitespace == {" ", "\t", "\n"}

UpperSet == {UpperChars[i] : i \in 1..Len(UpperChars)}
UpperToLower ==
    [c \in UpperSet |-> LowerChars[CHOOSE i \in 1..Len(UpperChars) : UpperChars[i] = c]]
LowerChar(c) == IF c \in UpperSet THEN UpperToLower[c] ELSE c

\* str.lower()
Lower(s) == [i \in 1..Len(s) |-> LowerChar(s[i])]

\* str.replace(ch, '')
RemoveChar(s, ch) == SelectSeq(s, LAMBDA c : c # ch)

RECURSIVE LStrip(_)
LStrip(s) == IF s # <<>> /\ Head(s) \in Whitespace THEN LStrip(Tail(s)) ELSE s

RECURSIVE RStrip(_)
RStrip(s) ==
    IF s # <<>> /\ s[Len(s)] \in Whitespace
    THEN RStrip(SubSeq(s, 1, Len(s) - 1))
    ELSE s

\* str.strip()
Strip(s) == RStrip(LStrip(s))

\* sub in s
Contains(s, sub) ==
    \E i \in 0..(Len(s) - Len(sub)) : SubSeq(s, i + 1, i + Len(sub)) = sub

\* s.split(sep): the pieces between the separators, empty pieces kept
RECURSIVE Split(_, _)
Split(s, sep) ==
    IF \E i \in 1..Len(s) : s[i] = sep
    THEN LET k == CHOOSE i \in 1..Len(s) :
                      s[i] = sep /\ \A j \in 1..(i - 1) : s[j] # sep
         IN  <<SubSeq(s, 1, k - 1)>> \o Split(SubSeq(s, k + 1, Len(s)), sep)
    ELSE <<s>>

\* sep.join(parts)
RECURSIVE Join(_, _)
Join(parts, sep) ==
    IF parts = <<>> THEN <<>>
    ELSE IF Len(parts) = 1 THEN parts[1]
    ELSE parts[1] \o <<sep>> \o Join(Tail(parts), sep)

\* All sequences over alphabet of length at most n
SeqsUpTo(alphabet, n) == UNION {[1..k -> alphabet] : k \in 0..n}

----------------------------------------------------------------------------
(* Python values *)

PyVal(kind, s, neg, mil, unit) ==
    [kind |-> kind, s |-> s, neg |-> neg, mil |-> mil, unit |-> unit]

Str(s) == PyVal("str", s, FALSE, 0, 0)
None == PyVal("none", <<>>, FALSE, 0, 0)
\* float('nan'): what pandas holds for an empty CSV cell
NaN == PyVal("nan", <<>>, FALSE, 0, 0)
\* A whole number of magnitude mil * 10^6 + unit, 0 <= unit < 10^6
Num(neg, mil, unit) == PyVal("num", <<>>, neg, mil, unit)

NA == <<"N", "/", "A">>

\* pd.isna(x) for a scalar
IsNa(v) == v.kind \in {"nan", "none"}

Million == 1000000
ThousandMillions == 1000

----------------------------------------------------------------------------
(* normalize_company_name *)

\* strip() applied before the two replace() calls
normalize_company_name_strip_first(name) ==
    IF IsNa(name) THEN Str(<<>>)
    ELSE Str(Lower(RemoveChar(RemoveChar(Strip(name.s), "."), ",")))

\* replace('.', ''), replace(',', ''), strip(), lower()
normalize_company_name(name) ==
    IF IsNa(name) THEN Str(<<>>)
    ELSE Str(Lower(Strip(RemoveChar(RemoveChar(name.s, "."), ","))))

----------------------------------------------------------------------------
(* format_market_cap *)

Digit(d) == DigitChars[d + 1]

RECURSIVE NatStr(_)
NatStr(n) == IF n < 10 THEN <<Digit(n)>> ELSE NatStr(n \div 10) \o <<Digit(n % 10)>>

Pad3(n) == <<Digit(n \div 100), Digit((n \div 10) % 10), Digit(n % 10)>>

\* The "," option of a format spec: groups of three digits
RECURSIVE Grouped(_)
Grouped(n) ==
    IF n < 1000 THEN NatStr(n)
    ELSE Grouped(n \div 1000) \o <<",">> \o Pad3(n % 1000)

\* Nearest integer to n / d, an exact tie going to the even neighbour.
\* (Python rounds the binary double; at an exact decimal tie the double's
\* expansion decides, which this model does not reproduce.)
RoundDiv(n, d) ==
    LET q == n \div d
        r == n % d
    IN  IF 2 * r > d \/ (2 * r = d /\ q % 2 = 1) THEN q + 1 ELSE q

\* f"{x:.2f}" of x = h / 100, h >= 0
Fixed2(h) == NatStr(h \div 100) \o <<".">> \o <<Digit((h % 100) \div 10), Digit(h % 10)>>

\* value / 1e9 in hundredths, value = mil * 10^6 + unit
HundredthsOfBillions(v) ==
    (v.mil \div 10) + RoundDiv((v.mil % 10) * Million + v.unit, 10 * Million)

\* value / 1e6 in hundredths
HundredthsOfMillions(v) == v.mil * 100 + RoundDiv(v.unit, Million \div 100)

\* f"{value:,.2f}" of a whole number
PlainGrouped(v) ==
    (IF v.neg THEN <<"-">> ELSE <<>>)
    \o (IF v.mil = 0 THEN Grouped(v.unit)
        ELSE Grouped(v.mil) \o <<",">> \o Pad3(v.unit \div 1000)
                            \o <<",">> \o Pad3(v.unit % 1000))
    \o <<".", "0", "0">>

DigitSet == {DigitChars[d] : d \in 1..Len(DigitChars)}
IsDigits(s) == s # <<>> /\ \A i \in 1..Len(s) : s[i] \in DigitSet

DigitVal(c) == (CHOOSE d \in 1..10 : DigitChars[d] = c) - 1

RECURSIVE DigitsVal(_)
DigitsVal(s) ==
    IF s = <<>> THEN 0 ELSE 10 * DigitsVal(SubSeq(s, 1, Len(s) - 1)) + DigitVal(s[Len(s)])

\* float(value): [ok |-> FALSE] stands for ValueError / TypeError.  Of the
\* strings float() accepts, decimal digit strings and "nan" are modelled.
PyFloat(value) ==
    CASE value.kind = "num" -> [ok |-> TRUE, val |-> value]
      [] value.kind = "nan" -> [ok |-> TRUE, val |-> NaN]
      [] value.kind = "none" -> [ok |-> FALSE, val |-> None]
      [] OTHER ->
            LET t == Strip(value.s)
            IN  IF IsDigits(t)
                THEN [ok |-> TRUE,
                      val |-> Num(FALSE, DigitsVal(t) \div Million, DigitsVal(t) % Million)]
                ELSE IF Lower(t) = <<"n", "a", "n">>
                THEN [ok |-> TRUE, val |-> NaN]
                ELSE [ok |-> FALSE, val |-> None]

\* value > 1e9 in place of value >= 1e9
GeBillion_strict(v) ==
    v.kind = "num" /\ ~v.neg
    /\ (v.mil > ThousandMillions \/ (v.mil = ThousandMillions /\ v.unit > 0))

\* value >= 1e9 and value >= 1e6; every comparison with NaN is false
GeBillion(v) == v.kind = "num" /\ ~v.neg /\ v.mil >= ThousandMillions
GeMillion(v) == v.kind = "num" /\ ~v.neg /\ v.mil >= 1

\* The 1e6 test placed before the 1e9 test
format_market_cap_million_first(value) ==
    LET f == PyFloat(value)
    IN  IF ~f.ok THEN NA
        ELSE IF GeMillion(f.val)
             THEN <<"$">> \o Fixed2(HundredthsOfMillions(f.val)) \o <<"M">>
        ELSE IF GeBillion(f.val)
             THEN <<"$">> \o Fixed2(HundredthsOfBillions(f.val)) \o <<"B">>
        ELSE IF f.val.kind = "nan" THEN <<"$", "n", "a", "n">>
        ELSE <<"$">> \o PlainGrouped(f.val)

\* format_market_cap; float() failing is the except branch
format_market_cap(value) ==
    LET f == PyFloat(value)
    IN  IF ~f.ok THEN NA
        ELSE IF GeBillion(f.val)
             THEN <<"$">> \o Fixed2(HundredthsOfBillions(f.val)) \o <<"B">>
        ELSE IF GeMillion(f.val)
             THEN <<"$">> \o Fixed2(HundredthsOfMillions(f.val)) \o <<"M">>
        ELSE IF f.val.kind = "nan" THEN <<"$", "n", "a", "n">>
        ELSE <<"$">> \o PlainGrouped(f.val)

----------------------------------------------------------------------------
(* Idle values of the variable groups a specification does not use *)

FnIdle == fn_pc = "idle" /\ fn_arg = None /\ fn_out = None /\ fn_out2 = None
LdIdle == ld_pc = "idle" /\ ld_json = <<>> /\ ld_csv = <<>> /\ ld_i = 0
SsIdle ==
    /\ data = <<>> /\ selected_company = None /\ selected_sector = None
    /\ active_tab = "" /\ first_visit = FALSE /\ messages = <<>> /\ view = <<>>

----------------------------------------------------------------------------
(* normalize_company_name applied, and applied again to its own result *)

NameAlphabet == {"A", "b", ".", ",", " "}
NameInputs == {Str(s) : s \in SeqsUpTo(NameAlphabet, MaxNameLen)} \cup {NaN}

InitNormalize ==
    /\ fn_pc = "call"
    /\ fn_arg \in NameInputs
    /\ fn_out = None
    /\ fn_out2 = None
    /\ LdIdle
    /\ SsIdle

Normalize ==
    /\ fn_pc = "call"
    /\ fn_out' = normalize_company_name(fn_arg)
    /\ fn_pc' = "once"
    /\ UNCHANGED <<fn_arg, fn_out2, ldVars, ssVars>>

NormalizeAgain ==
    /\ fn_pc = "once"
    /\ fn_out2' = normalize_company_name(fn_out)
    /\ fn_pc' = "twice"
    /\ UNCHANGED <<fn_arg, fn_out, ldVars, ssVars>>

NextNormalize == Normalize \/ NormalizeAgain

SpecNormalize == InitNormalize /\ [][NextNormalize]_vars

----------------------------------------------------------------------------
(* format_market_cap applied to one value *)

MilSamples == {0, 1, 2, 9, 999, 1000, 1004, 2500, 5000}
UnitSamples == {0, 1, 500, 4999, 5000, 5001, 750000, 999999}
NumericInputs ==
    {Num(n, m, u) : n \in BOOLEAN, m \in MilSamples, u \in UnitSamples}
        \ {Num(TRUE, 0, 0)}
TextInputs ==
    {Str(NA), Str(<<>>), Str(<<"n", "o", "t", " ", "a", " ", "n", "u", "m">>),
     Str(<<"5", "0", "0">>), Str(<<" ", "7", "5", "0", "0", "0", "0", " ">>),
     Str(<<"5", "e", "9", "x">>), Str(<<"n", "a", "n">>)}
FormatInputs == NumericInputs \cup TextInputs \cup {None, NaN}

InitFormat ==
    /\ fn_pc = "call"
    /\ fn_arg \in FormatInputs
    /\ fn_out = None
    /\ fn_out2 = None
    /\ LdIdle
    /\ SsIdle

Format ==
    /\ fn_pc = "call"
    /\ fn_out' = Str(format_market_cap(fn_arg))
    /\ fn_pc' = "once"
    /\ UNCHANGED <<fn_arg, fn_out2, ldVars, ssVars>>

NextFormat == Format

SpecFormat == InitFormat /\ [][NextFormat]_vars

----------------------------------------------------------------------------
(* The input files *)

\* Company names: the keys of company_analysis, in file order
CompanyCab == <<"C", "a", "b", ".">>
CompanyAb == <<"A", "b", ".">>
CompanyZ == <<"Z">>
CompanyOrder == <<CompanyCab, CompanyAb, CompanyZ>>

SectorIT == <<"I", "T">>
SectorOil == <<"O", "i", "l">>

\* One analysis record as the JSON file holds it, before enrichment
RawRecord(rec, score, expl) ==
    [recommendation |-> Str(<<rec>>),
     ultimate_strength |-> Num(FALSE, 0, score),
     explanation |-> Str(<<expl>>)]

\* data/consolidated_company_analysis.json
JsonInputs ==
    {[order |-> CompanyOrder,
      company_analysis |->
          [c \in {CompanyCab, CompanyAb, CompanyZ} |->
              IF c = CompanyCab THEN RawRecord("Hold", 5, "cab is steady")
              ELSE IF c = CompanyAb THEN RawRecord("Invest", 8, "ab grows")
              ELSE IF z THEN RawRecord("Avoid", 8, "z shrinks")
              ELSE [ultimate_strength |-> Num(FALSE, 0, 8),
                    explanation |-> Str(<<"z shrinks">>)]],
      sectors |-> <<SectorIT, SectorOil>>,
      consolidated_trends |->
          [s \in {SectorIT, SectorOil} |->
              IF s = SectorIT THEN Str(<<"IT is booming">>) ELSE Str(<<"Oil is flat">>)]]
     : z \in BOOLEAN}

\* The enrichment keys of a record and the CSV column each is copied from
EnrichKeys == {"industry", "market_cap", "country", "website", "symbols"}
ColumnOf(key) == IF key = "symbols" THEN "symbol" ELSE key
AllColumns == {"name", "industry", "market_cap", "country", "website", "symbol"}

CsvRow(name, industry, cap, country, website, symbol) ==
    [name |-> name, industry |-> industry, market_cap |-> cap,
     country |-> country, website |-> website, symbol |-> symbol]

\* Rows of data/S&P500_related_tickers_combined.csv; an empty cell reads as NaN
RowAB ==
    CsvRow(Str(<<"A", "B", ",">>), Str(SectorIT), Num(FALSE, 5000, 0), Str(<<"US">>),
           Str(<<"ab.example">>), Str(<<"K", ".", "A", ",", " ", "K", ".", "B">>))
RowAbEmptyCells == CsvRow(Str(<<" ", "a", "b">>), NaN, NaN, Str(<<"UK">>), NaN, NaN)
RowCab ==
    CsvRow(Str(<<"C", "a", "b">>), Str(SectorOil), Num(FALSE, 0, 750000), Str(<<"CA">>),
           Str(<<"cab.example">>), Str(<<"C", "B">>))
RowNameless ==
    CsvRow(NaN, Str(SectorOil), Num(FALSE, 2, 0), Str(<<"NO">>),
           Str(<<"nameless.example">>), Str(<<"N", "N">>))
RowZ ==
    CsvRow(Str(<<"z">>), Str(SectorIT), Num(FALSE, 1000, 0), Str(<<"DE">>),
           Str(<<"z.example">>), Str(<<"Z", "Z", ",", " ", "Z", "T">>))
RowSamples == {RowAB, RowAbEmptyCells, RowCab, RowNameless, RowZ}

RowSeqs == UNION {[1..k -> RowSamples] : k \in 0..MaxRows}

\* A CSV file: its columns and its rows, each row restricted to the columns
Csv(cols, rows) ==
    [cols |-> cols, rows |-> [i \in 1..Len(rows) |-> [c \in cols |-> rows[i][c]]]]

CsvInputs ==
    {Csv(cols, rows) : cols \in {AllColumns, AllColumns \ {"website"}}, rows \in RowSeqs}

\* The metadata files a session is started with
SessionCsvs ==
    {Csv(AllColumns, <<RowAB, RowCab>>),
     Csv(AllColumns, <<RowAbEmptyCells, RowAB>>),
     Csv(AllColumns \ {"website"}, <<RowCab, RowNameless, RowZ>>)}

\* The names of data/S&P500_standardized.csv
Sp500Names == <<Str(<<"A", "B", ".">>), NaN>>

----------------------------------------------------------------------------
(* load_data *)

\* dict.get(key, default) and Series.get(key, default)
Get(d, key, default) == IF key \in DOMAIN d THEN d[key] ELSE default

\* combined_df[combined_df['normalized_name'] == normalized_name]
MatchingRows(csv, normalized_name) ==
    SelectSeq(csv.rows, LAMBDA r : normalize_company_name(r["name"]) = normalized_name)

\* matching_row.iloc[-1]
ChosenRow_last(matching) == matching[Len(matching)]

\* The row whose cells are copied: matching_row.iloc[0]
ChosenRow(matching) == matching[1]

\* One iteration of the enrichment loop
EnrichRecord(company_name, company_data, csv) ==
    LET matching == MatchingRows(csv, normalize_company_name(Str(company_name)))
    IN  IF matching # <<>>
        THEN LET row == ChosenRow(matching)
             IN  [k \in DOMAIN company_data \cup EnrichKeys |->
                     IF k \in EnrichKeys THEN Get(row, ColumnOf(k), Str(NA))
                     ELSE company_data[k]]
        ELSE company_data

\* The whole of load_data: every record enriched, in file order
load_data(json, csv) ==
    [json EXCEPT !.company_analysis =
        [c \in DOMAIN json.company_analysis |->
            EnrichRecord(c, json.company_analysis[c], csv)]]

\* set(sp500_df['name'].apply(normalize_company_name))
Sp500Companies == {normalize_company_name(Sp500Names[i]) : i \in 1..Len(Sp500Names)}

----------------------------------------------------------------------------
(* load_data's loop, one record at a time *)

InitLoad ==
    /\ ld_pc = "loop"
    /\ ld_json \in JsonInputs
    /\ ld_csv \in CsvInputs
    /\ ld_i = 0
    /\ FnIdle
    /\ SsIdle

EnrichNext ==
    /\ ld_pc = "loop"
    /\ ld_i < Len(ld_json.order)
    /\ LET c == ld_json.order[ld_i + 1]
       IN  ld_json' = [ld_json EXCEPT !.company_analysis[c] =
                          EnrichRecord(c, ld_json.company_analysis[c], ld_csv)]
    /\ ld_i' = ld_i + 1
    /\ UNCHANGED <<ld_pc, ld_csv, fnVars, ssVars>>

ReturnData ==
    /\ ld_pc = "loop"
    /\ ld_i = Len(ld_json.order)
    /\ ld_pc' = "returned"
    /\ UNCHANGED <<ld_json, ld_csv, ld_i, fnVars, ssVars>>

NextLoad == EnrichNext \/ ReturnData

SpecLoad == InitLoad /\ [][NextLoad]_vars

----------------------------------------------------------------------------
(* Rendering: what one script run shows.  A run that raises stops there;   *)
(* its error is recorded and whatever it wrote to the session state stays. *)

\* str(v), as an f-string renders a value
ToText(v) ==
    CASE v.kind = "str" -> v.s
      [] v.kind = "nan" -> <<"nan">>
      [] v.kind = "none" -> <<"None">>
      [] OTHER -> (IF v.neg THEN <<"-">> ELSE <<>>)
                  \o (IF v.mil = 0 THEN NatStr(v.unit)
                      ELSE NatStr(v.mil) \o Pad3(v.unit \div 1000) \o Pad3(v.unit % 1000))

\* bool(v)
Truthy(v) ==
    CASE v.kind = "str" -> v.s # <<>>
      [] v.kind = "nan" -> TRUE
      [] v.kind = "none" -> FALSE
      [] OTHER -> v.mil # 0 \/ v.unit # 0

IndexOf(seq, x) == CHOOSE i \in 1..Len(seq) : seq[i] = x /\ \A j \in 1..(i - 1) : seq[j] # x
InSeq(seq, x) == \E i \in 1..Len(seq) : seq[i] = x

NotRendered == <<"(not rendered)">>

NoInfo ==
    [error |-> "", industry |-> NotRendered, sector_button |-> FALSE,
     market_cap |-> NotRendered, country |-> NotRendered, website |-> NotRendered]

\* display_company_info: the symbol lookup and the company details columns.
\* The market-data calls sit inside try/except and show nothing here.
display_company_info(company_data) ==
    IF Get(company_data, "symbols", Str(<<>>)).kind # "str"
    THEN [NoInfo EXCEPT !.error = "AttributeError"]
    ELSE LET industry == ToText(Get(company_data, "industry", Str(NA)))
         IN  IF Get(company_data, "industry", None) # Str(NA)
                  /\ "industry" \notin DOMAIN company_data
             THEN [NoInfo EXCEPT !.error = "KeyError", !.industry = industry]
             ELSE [error |-> "",
                   industry |-> industry,
                   sector_button |-> Get(company_data, "industry", None) # Str(NA),
                   market_cap |-> format_market_cap(Get(company_data, "market_cap", Str(NA))),
                   country |-> ToText(Get(company_data, "country", Str(NA))),
                   website |-> ToText(Get(company_data, "website", Str(NA)))]

\* search_term in company.lower() or (symbols and any(search_term in s.lower() ...)):
\* "yes", "no", or "raise" when symbols is truthy but has no split()
SearchHit(company_data, company, search_term) ==
    IF Contains(Lower(company), search_term) THEN "yes"
    ELSE LET symbols == Get(company_data, "symbols", Str(<<>>))
         IN  IF ~Truthy(symbols) THEN "no"
             ELSE IF symbols.kind # "str" THEN "raise"
             ELSE LET pieces == Split(symbols.s, ",")
                  IN  IF \E i \in 1..Len(pieces) : Contains(Lower(pieces[i]), search_term)
                      THEN "yes" ELSE "no"

\* company in sp500_companies, the name not normalised
InIndex_raw_name(company, sp500_companies) == Str(company) \in sp500_companies

\* normalize_company_name(company) in sp500_companies
InIndex(company, sp500_companies) ==
    normalize_company_name(Str(company)) \in sp500_companies

\* The two checkbox conditions of the comprehension
MembershipPass(company, sp500_companies, filter_sp500, filter_non_sp500) ==
    /\ (~filter_sp500 \/ InIndex(company, sp500_companies))
    /\ (~filter_non_sp500 \/ normalize_company_name(Str(company)) \notin sp500_companies)

\* The filtered_companies comprehension: error when evaluating it raises
FilterCompanies(d, sp500_companies, search_term, filter_sp500, filter_non_sp500) ==
    LET pass(c) == MembershipPass(c, sp500_companies, filter_sp500, filter_non_sp500)
        hit(c) == SearchHit(d.company_analysis[c], c, search_term)
        raises == \E i \in 1..Len(d.order) : pass(d.order[i]) /\ hit(d.order[i]) = "raise"
    IN  [error |-> raises,
         filtered |-> IF raises THEN <<>>
                      ELSE SelectSeq(d.order, LAMBDA c : pass(c) /\ hit(c) = "yes")]

EmptyView ==
    [tab |-> "none", error |-> "", at |-> "",
     text |-> <<>>, filter_sp500 |-> FALSE, filter_non_sp500 |-> FALSE,
     filtered |-> <<>>, shown |-> None, info |-> NoInfo,
     sector |-> None, scores |-> {}, buttons |-> {},
     chat_input |-> FALSE, context |-> <<>>, request |-> <<>>, api |-> "",
     response |-> <<>>,
     ack |-> <<>>]

\* The text box's initial value: the selected company, if any
DefaultSearchText(sel) == IF Truthy(sel) THEN sel.s ELSE <<>>

\* show_company_analysis with the widgets holding text and the two
\* checkboxes; pick is the select box choice (None: its initial index)
show_company_analysis(d, sp500_companies, sel, text, filter_sp500, filter_non_sp500, pick) ==
    LET base == [EmptyView EXCEPT !.tab = "Company Analysis", !.text = text,
                                  !.filter_sp500 = filter_sp500,
                                  !.filter_non_sp500 = filter_non_sp500]
        f == FilterCompanies(d, sp500_companies, Lower(text), filter_sp500, filter_non_sp500)
    IN  IF f.error
        THEN [base EXCEPT !.error = "AttributeError", !.at = "show_company_analysis"]
        ELSE IF f.filtered = <<>> THEN base
        ELSE LET selected_idx ==
                     IF sel.kind = "str" /\ InSeq(f.filtered, sel.s)
                     THEN IndexOf(f.filtered, sel.s) ELSE 1
                 chosen ==
                     IF pick.kind = "str" /\ InSeq(f.filtered, pick.s)
                     THEN pick.s ELSE f.filtered[selected_idx]
                 info == display_company_info(d.company_analysis[chosen])
             IN  [base EXCEPT !.filtered = f.filtered, !.shown = Str(chosen),
                              !.info = info, !.error = info.error,
                              !.at = IF info.error = "" THEN ""
                                     ELSE "display_company_info"]

----------------------------------------------------------------------------
(* The chat assistant *)

HistoryWindow == 5

Apology ==
    <<
      "I", " ", "a", "p", "o", "l", "o", "g", "i", "z", "e", ",", " ", "b",
      "u", "t", " ", "I", " ", "e", "n", "c", "o", "u", "n", "t", "e", "r",
      "e", "d", " ", "a", "n", " ", "e", "r", "r", "o", "r", ".", " ", "C",
      "o", "u", "l", "d", " ", "y", "o", "u", " ", "p", "l", "e", "a", "s",
      "e", " ", "r", "e", "p", "h", "r", "a", "s", "e", " ", "y", "o", "u",
      "r", " ", "q", "u", "e", "s", "t", "i", "o", "n", "?"
    >>

IsUpper(c) == c \in UpperSet

\* re.findall(r'\(([A-Z]{1,5})\)', content), scanning from position i
RECURSIVE FindSymbolsFrom(_, _)
FindSymbolsFrom(content, i) ==
    IF i > Len(content) THEN <<>>
    ELSE LET fits(n) == /\ i + n + 1 <= Len(content)
                        /\ content[i + n + 1] = ")"
                        /\ \A j \in 1..n : IsUpper(content[i + j])
         IN  IF content[i] = "(" /\ \E n \in 1..5 : fits(n)
             THEN LET n == CHOOSE n \in 1..5 : fits(n)
                  IN  <<SubSeq(content, i + 1, i + n)>> \o FindSymbolsFrom(content, i + n + 2)
             ELSE FindSymbolsFrom(content, i + 1)

FindSymbols(content) == FindSymbolsFrom(content, 1)

RECURSIVE Concat(_)
Concat(seqs) == IF seqs = <<>> THEN <<>> ELSE Head(seqs) \o Concat(Tail(seqs))

\* A Python dict as its items in insertion order
DictHas(dict, key) == \E i \in 1..Len(dict) : dict[i].key = key
DictGet(dict, key) == dict[CHOOSE i \in 1..Len(dict) : dict[i].key = key].value
DictPut(dict, key, value) ==
    IF DictHas(dict, key)
    THEN [i \in 1..Len(dict) |-> IF dict[i].key = key THEN [dict[i] EXCEPT !.value = value]
                                 ELSE dict[i]]
    ELSE Append(dict, [key |-> key, value |-> value])

RECURSIVE DictFrom(_)
DictFrom(items) ==
    IF items = <<>> THEN <<>>
    ELSE LET last == items[Len(items)]
         IN  DictPut(DictFrom(SubSeq(items, 1, Len(items) - 1)), last.key, last.value)

\* symbol_to_company: error when some record's symbols has no split()
symbol_to_company(d) ==
    LET has(c) == "symbols" \in DOMAIN d.company_analysis[c]
        items(c) ==
            LET pieces == Split(d.company_analysis[c]["symbols"].s, ",")
            IN  [j \in 1..Len(pieces) |-> [key |-> Strip(pieces[j]), value |-> c]]
    IN  IF \E i \in 1..Len(d.order) :
              has(d.order[i]) /\ d.company_analysis[d.order[i]]["symbols"].kind # "str"
        THEN [error |-> TRUE, dict |-> <<>>]
        ELSE [error |-> FALSE,
              dict |-> DictFrom(Concat([i \in 1..Len(d.order) |->
                            IF has(d.order[i]) THEN items(d.order[i]) ELSE <<>>]))]

\* The symbols the history loop draws buttons for, in order
HistorySymbols(msgs) ==
    Concat([i \in 1..Len(msgs) |->
               IF msgs[i].role = "assistant" THEN FindSymbols(msgs[i].content) ELSE <<>>])

\* Two st.button calls of one run with the same key: Streamlit raises
HasDuplicate(seq) == \E i, j \in 1..Len(seq) : i < j /\ seq[i] = seq[j]

\* add_chatbot_interface up to the chat input: the symbol map and the history
ChatPage(d, msgs) ==
    LET base == [EmptyView EXCEPT !.tab = "Chat"]
        m == symbol_to_company(d)
        symbols == HistorySymbols(msgs)
    IN  IF m.error
        THEN [base EXCEPT !.error = "AttributeError", !.at = "add_chatbot_interface"]
        ELSE IF HasDuplicate(symbols)
        THEN [base EXCEPT !.error = "DuplicateWidgetID", !.at = "add_chatbot_interface"]
        ELSE [base EXCEPT
                 !.chat_input = TRUE,
                 !.buttons = {DictGet(m.dict, symbols[i]) :
                                 i \in {k \in 1..Len(symbols) : DictHas(m.dict, symbols[k])}}]

\* name in query, neither lower-cased
NameInQuery_case_sensitive(name, query) == Contains(query, name)

\* name.lower() in query.lower()
NameInQuery(name, query) == Contains(Lower(query), Lower(name))

\* prepare_context: error when a mentioned record lacks a key read with []
prepare_context(d, query) ==
    LET mentioned == SelectSeq(d.order, LAMBDA c : NameInQuery(c, query))
        block(c) ==
            LET details == d.company_analysis[c]
            IN  << <<"Company Analysis for ">> \o c \o <<":">>,
                   <<"Recommendation: ">> \o ToText(details["recommendation"]),
                   <<"Ultimate Strength: ">> \o ToText(details["ultimate_strength"]),
                   <<"Industry: ">> \o ToText(Get(details, "industry", Str(NA))),
                   <<"Explanation: ">> \o ToText(Get(details, "explanation", Str(<<>>))) >>
        sectors == SelectSeq(d.sectors, LAMBDA s : NameInQuery(s, query))
        trend(s) == << <<"\nSector Analysis for ">> \o s \o <<":">>,
                       d.consolidated_trends[s].s >>
    IN  IF \E i \in 1..Len(mentioned) :
              ~({"recommendation", "ultimate_strength"}
                    \subseteq DOMAIN d.company_analysis[mentioned[i]])
        THEN [error |-> "KeyError", context |-> <<>>]
        ELSE [error |-> "",
              context |->
                  Join(Concat([i \in 1..Len(mentioned) |-> block(mentioned[i])])
                       \o Concat([i \in 1..Len(sectors) |-> trend(sectors[i])]), "\n")]

LastN(seq, n) == IF Len(seq) <= n THEN seq ELSE SubSeq(seq, Len(seq) - n + 1, Len(seq))

Message(role, content) == [role |-> role, content |-> content]

\* The anthropic call: it raises, or it returns one text block
ApiOutcomes == {[raised |-> TRUE, text |-> <<>>]} \cup
               {[raised |-> FALSE, text |-> r] :
                    r \in {<<"(", "C", "B", ")">>,
                           <<"C", "a", "b", ".", " ", "(", "C", "B", ")">>}}

\* get_response without its try/except: the call's error propagates
get_response_unhandled(query, d, msgs, outcome) ==
    LET p == prepare_context(d, query)
        request == LastN(msgs, HistoryWindow) \o <<Message("user", query)>>
    IN  IF p.error # ""
        THEN [error |-> p.error, at |-> "prepare_context", context |-> <<>>,
              request |-> <<>>, api |-> "", response |-> <<>>]
        ELSE IF outcome.raised
        THEN [error |-> "APIError", at |-> "get_response", context |-> p.context,
              request |-> request, api |-> "raised", response |-> <<>>]
        ELSE [error |-> "", at |-> "", context |-> p.context, request |-> request,
              api |-> "returned", response |-> outcome.text]

\* get_response: msgs is st.session_state.messages as the call finds it
get_response(query, d, msgs, outcome) ==
    LET p == prepare_context(d, query)
        request == LastN(msgs, HistoryWindow) \o <<Message("user", query)>>
    IN  IF p.error # ""
        THEN [error |-> p.error, at |-> "prepare_context", context |-> <<>>,
              request |-> <<>>, api |-> "", response |-> <<>>]
        ELSE IF outcome.raised
        THEN [error |-> "", at |-> "", context |-> p.context, request |-> request,
              api |-> "raised", response |-> Apology]
        ELSE [error |-> "", at |-> "", context |-> p.context, request |-> request,
              api |-> "returned", response |-> outcome.text]

\* The symbols of the "resp_company_<symbol>" buttons drawn for a response,
\* one per element of unique_matches that has a company and a symbol
ResponseButtonSymbols(dict, response) ==
    LET symbols == FindSymbols(response)
        company_names == {dict[i].value : i \in {k \in 1..Len(dict) :
                              Contains(Lower(response), Lower(dict[k].value))}}
        unique_matches == {symbols[i] : i \in 1..Len(symbols)} \cup company_names
        firstKey(company) ==
            dict[CHOOSE i \in 1..Len(dict) :
                    dict[i].value = company /\ \A j \in 1..(i - 1) : dict[j].value # company].key
        drawn == {m \in unique_matches :
                     IF DictHas(dict, m) THEN DictGet(dict, m) # <<>> /\ m # <<>>
                     ELSE m # <<>> /\ (\E i \in 1..Len(dict) : dict[i].value = m)
                          /\ firstKey(m) # <<>>}
    IN  [m \in drawn |-> IF DictHas(dict, m) THEN m ELSE firstKey(m)]

\* The chat turn after the page is drawn: the prompt is stored, answered,
\* the answer's quick links are drawn, and the answer is stored
ChatTurn(d, msgs, page, prompt, outcome) ==
    LET with_user == Append(msgs, Message("user", prompt))
        r == get_response(prompt, d, with_user, outcome)
        keys == ResponseButtonSymbols(symbol_to_company(d).dict, r.response)
        turn == [page EXCEPT !.context = r.context, !.request = r.request,
                             !.api = r.api, !.response = r.response]
    IN  IF r.error # ""
        THEN [messages |-> with_user,
              view |-> [turn EXCEPT !.error = r.error, !.at = r.at]]
        ELSE IF \E m1, m2 \in DOMAIN keys : m1 # m2 /\ keys[m1] = keys[m2]
        THEN [messages |-> with_user,
              view |-> [turn EXCEPT !.error = "DuplicateWidgetID",
                                    !.at = "add_chatbot_interface"]]
        ELSE [messages |-> Append(with_user, Message("assistant", r.response)),
              view |-> turn]

\* show_overview with the given scores chosen in the multiselect: one
\* navigation button per company with such a score
show_overview(d, score_selection) ==
    [EmptyView EXCEPT
        !.tab = "Overview",
        !.scores = score_selection,
        !.buttons = {c \in DOMAIN d.company_analysis :
                        d.company_analysis[c]["ultimate_strength"] \in score_selection}]

\* show_sector_trends; pick is the select box choice (None: its initial index)
show_sector_trends(d, sel, pick) ==
    IF d.sectors = <<>> THEN [EmptyView EXCEPT !.tab = "Sector Trends"]
    ELSE LET selected_idx ==
                 IF sel.kind = "str" /\ InSeq(d.sectors, sel.s)
                 THEN IndexOf(d.sectors, sel.s) ELSE 1
             shown ==
                 IF pick.kind = "str" /\ InSeq(d.sectors, pick.s)
                 THEN pick.s ELSE d.sectors[selected_idx]
         IN  [EmptyView EXCEPT
                 !.tab = "Sector Trends",
                 !.sector = Str(shown),
                 !.buttons = {c \in DOMAIN d.company_analysis :
                                 Get(d.company_analysis[c], "industry", None) = Str(shown)}]

\* suggest_company: the text is echoed and kept nowhere
suggest_company(text) ==
    [EmptyView EXCEPT !.tab = "Suggest a Company", !.ack = text]

----------------------------------------------------------------------------
(* One session.  Every action is one script run of main(): the widget      *)
(* event that caused it, then the active view rendered from top to bottom. *)

TabChat == "Chat"
TabOverview == "Overview"
TabCompany == "Company Analysis"
TabSector == "Sector Trends"
TabSuggest == "Suggest a Company"
\* nav_options
NavKeys == {TabChat, TabOverview, TabCompany, TabSector, TabSuggest}

\* What the user may type
SearchTexts == {<<>>, <<"k", ".", "B">>, <<"z", "z">>}
Prompts == {<<"z", " ", "i", "t">>, <<"h", "i">>}
Suggestions == {<<"Acme">>}

Companies(d) == DOMAIN d.company_analysis
Scores(d) == {d.company_analysis[c]["ultimate_strength"] : c \in Companies(d)}
UserTurns == Cardinality({i \in 1..Len(messages) : messages[i].role = "user"})

\* The view of main()'s if/elif chain for the active tab, a widget keeping
\* its value while the run before drew it too
Render(tab, d, msgs, sel_company, sel_sector, prev) ==
    CASE tab = TabChat -> ChatPage(d, msgs)
      [] tab = TabOverview ->
            show_overview(d, IF prev.tab = TabOverview THEN prev.scores ELSE {})
      [] tab = TabCompany ->
            IF prev.tab = TabCompany
            THEN show_company_analysis(d, Sp500Companies, sel_company, prev.text,
                                       prev.filter_sp500, prev.filter_non_sp500, None)
            ELSE show_company_analysis(d, Sp500Companies, sel_company,
                                       DefaultSearchText(sel_company), FALSE, FALSE, None)
      [] tab = TabSector ->
            show_sector_trends(d, sel_sector,
                               IF prev.tab = TabSector THEN prev.sector ELSE None)
      [] OTHER -> suggest_company(IF prev.tab = TabSuggest THEN prev.ack ELSE <<>>)

\* The state once main() has initialised the session state and loaded the data
Init ==
    /\ ld_csv \in SessionCsvs
    /\ ld_json \in {load_data(j, ld_csv) : j \in JsonInputs}
    /\ ld_i = Len(ld_json.order)
    /\ ld_pc = "returned"
    /\ data = ld_json
    /\ selected_company = None
    /\ selected_sector = None
    /\ active_tab = TabChat
    /\ first_visit = TRUE
    /\ messages = <<>>
    /\ view = EmptyView
    /\ FnIdle

\* The rest of the first run: the welcome and the chat page
FirstRun ==
    /\ view.tab = "none"
    /\ first_visit' = FALSE
    /\ view' = Render(active_tab, data, messages, selected_company, selected_sector, view)
    /\ UNCHANGED <<data, selected_company, selected_sector, active_tab, messages,
                   fnVars, ldVars>>

\* A sidebar button
PressNav(key) ==
    /\ view.tab # "none"
    /\ active_tab' = key
    /\ first_visit' = (first_visit /\ key # TabChat)
    /\ view' = Render(key, data, messages, selected_company, selected_sector, view)
    /\ UNCHANGED <<data, selected_company, selected_sector, messages, fnVars, ldVars>>

\* A prompt entered in the chat input
SubmitChat(prompt, outcome) ==
    /\ active_tab = TabChat
    /\ view.chat_input
    /\ UserTurns < MaxTurns
    /\ LET page == ChatPage(data, messages)
           turn == ChatTurn(data, messages, page, prompt, outcome)
       IN  IF page.error # ""
           THEN view' = page /\ UNCHANGED messages
           ELSE view' = turn.view /\ messages' = turn.messages
    /\ UNCHANGED <<data, selected_company, selected_sector, active_tab, first_visit,
                   fnVars, ldVars>>

\* The search box or a checkbox changed
SearchCompanies(text, filter_sp500, filter_non_sp500) ==
    /\ active_tab = TabCompany
    /\ view.tab = TabCompany
    /\ view' = show_company_analysis(data, Sp500Companies, selected_company, text,
                                     filter_sp500, filter_non_sp500, None)
    /\ UNCHANGED <<data, selected_company, selected_sector, active_tab, first_visit,
                   messages, fnVars, ldVars>>

\* Another entry of the company select box
PickCompany(c) ==
    /\ active_tab = TabCompany
    /\ view.tab = TabCompany
    /\ InSeq(view.filtered, c)
    /\ view' = show_company_analysis(data, Sp500Companies, selected_company, view.text,
                                     view.filter_sp500, view.filter_non_sp500, Str(c))
    /\ UNCHANGED <<data, selected_company, selected_sector, active_tab, first_visit,
                   messages, fnVars, ldVars>>

\* The score multiselect of the overview
SelectScores(score_selection) ==
    /\ active_tab = TabOverview
    /\ view.tab = TabOverview
    /\ view' = show_overview(data, score_selection)
    /\ UNCHANGED <<data, selected_company, selected_sector, active_tab, first_visit,
                   messages, fnVars, ldVars>>

\* Another entry of the sector select box
PickSector(s) ==
    /\ active_tab = TabSector
    /\ view.tab = TabSector
    /\ InSeq(data.sectors, s)
    /\ view' = show_sector_trends(data, selected_sector, Str(s))
    /\ UNCHANGED <<data, selected_company, selected_sector, active_tab, first_visit,
                   messages, fnVars, ldVars>>

\* A "View <company> Analysis" button: navigate_to_company and the rerun
navigate_to_company(company_name) ==
    /\ company_name \in view.buttons
    /\ selected_company' = Str(company_name)
    /\ active_tab' = TabCompany
    /\ view' = Render(TabCompany, data, messages, Str(company_name), selected_sector, view)
    /\ UNCHANGED <<data, selected_sector, first_visit, messages, fnVars, ldVars>>

\* navigate_to_sector storing a tab name that is no key of nav_options
navigate_to_sector_unknown_tab ==
    /\ view.tab = TabCompany
    /\ view.info.sector_button
    /\ LET sector_name == data.company_analysis[view.shown.s]["industry"]
       IN  /\ selected_sector' = sector_name
           /\ view' = Render("Sectors", data, messages, selected_company, sector_name, view)
    /\ active_tab' = "Sectors"
    /\ UNCHANGED <<data, selected_company, first_visit, messages, fnVars, ldVars>>

\* The "View <industry> Sector Trends" button: navigate_to_sector and the rerun
navigate_to_sector ==
    /\ view.tab = TabCompany
    /\ view.info.sector_button
    /\ LET sector_name == data.company_analysis[view.shown.s]["industry"]
       IN  /\ selected_sector' = sector_name
           /\ view' = Render(TabSector, data, messages, selected_company, sector_name, view)
    /\ active_tab' = TabSector
    /\ UNCHANGED <<data, selected_company, first_visit, messages, fnVars, ldVars>>

\* A suggestion box that kept its text as the selected company
SubmitSuggestion_selects(text) ==
    /\ active_tab = TabSuggest
    /\ view.tab = TabSuggest
    /\ view' = suggest_company(text)
    /\ selected_company' = Str(text)
    /\ UNCHANGED <<data, selected_sector, active_tab, first_visit,
                   messages, fnVars, ldVars>>

\* Text entered in the suggestion box
SubmitSuggestion(text) ==
    /\ active_tab = TabSuggest
    /\ view.tab = TabSuggest
    /\ view' = suggest_company(text)
    /\ UNCHANGED <<data, selected_company, selected_sector, active_tab, first_visit,
                   messages, fnVars, ldVars>>

Next ==
    \/ FirstRun
    \/ \E key \in NavKeys : PressNav(key)
    \/ \E prompt \in Prompts, outcome \in ApiOutcomes : SubmitChat(prompt, outcome)
    \/ \E text \in SearchTexts, f1, f2 \in BOOLEAN : SearchCompanies(text, f1, f2)
    \/ \E c \in Companies(data) : PickCompany(c)
    \/ \E s \in SUBSET Scores(data) : SelectScores(s)
    \/ \E s \in DOMAIN data.consolidated_trends : PickSector(s)
    \/ \E c \in Companies(data) : navigate_to_company(c)
    \/ navigate_to_sector
    \/ \E text \in Suggestions : SubmitSuggestion(text)

Spec == Init /\ [][Next]_vars

----------------------------------------------------------------------------
(* Reading a rendered amount back, independently of how it was rendered *)

\* digits "." digit digit, no leading zero on a whole part of several digits
IsFixed2(b) ==
    /\ Len(b) >= 4
    /\ b[Len(b) - 2] = "."
    /\ IsDigits(SubSeq(b, 1, Len(b) - 3))
    /\ IsDigits(SubSeq(b, Len(b) - 1, Len(b)))
    /\ (Len(b) > 4 => b[1] # "0")

HundredthsOf(b) ==
    100 * DigitsVal(SubSeq(b, 1, Len(b) - 3)) + DigitsVal(SubSeq(b, Len(b) - 1, Len(b)))

\* A whole part with a "," before every group of three digits, counted from the right
IsGrouped(w) ==
    /\ w # <<>>
    /\ \A i \in 1..Len(w) :
          IF (Len(w) - i + 1) % 4 = 0 THEN w[i] = "," ELSE IsDigits(<<w[i]>>)
    /\ (Len(w) > 1 => w[1] # "0")

Abs(n) == IF n < 0 THEN -n ELSE n

\* out is "$" + (arg / 1e9 to two decimals) + "B"
ReadsAsBillions(out, v) ==
    /\ Len(out) >= 6 /\ out[1] = "$" /\ out[Len(out)] = "B"
    /\ LET b == SubSeq(out, 2, Len(out) - 1)
       IN  /\ IsFixed2(b)
           /\ Abs(10 * HundredthsOf(b) - v.mil) <= 5
           /\ 2 * Abs((10 * HundredthsOf(b) - v.mil) * Million - v.unit) <= 10 * Million

\* out is "$" + (arg / 1e6 to two decimals) + "M"
ReadsAsMillions(out, v) ==
    /\ Len(out) >= 6 /\ out[1] = "$" /\ out[Len(out)] = "M"
    /\ LET b == SubSeq(out, 2, Len(out) - 1)
       IN  /\ IsFixed2(b)
           /\ HundredthsOf(b) \div 100 \in {v.mil, v.mil + 1}
           /\ 2 * Abs((HundredthsOf(b) - 100 * v.mil) * (Million \div 100) - v.unit)
                 <= Million \div 100

\* out is "$" + arg with thousands separators and two decimals, no suffix
ReadsAsPlain(out, v) ==
    /\ Len(out) >= 5 /\ out[1] = "$"
    /\ SubSeq(out, Len(out) - 2, Len(out)) = <<".", "0", "0">>
    /\ LET signed == SubSeq(out, 2, Len(out) - 3)
           w == IF v.neg THEN Tail(signed) ELSE signed
           d == RemoveChar(w, ",")
       IN  /\ v.neg => (signed # <<>> /\ Head(signed) = "-")
           /\ IsGrouped(w)
           /\ IF Len(d) <= 6
              THEN v.mil = 0 /\ DigitsVal(d) = v.unit
              ELSE /\ DigitsVal(SubSeq(d, 1, Len(d) - 6)) = v.mil
                   /\ DigitsVal(SubSeq(d, Len(d) - 5, Len(d))) = v.unit

----------------------------------------------------------------------------
(* Claims about the pure helpers *)

\* C3: normalize_company_name is idempotent on every name, and a missing
\* name maps to the empty string: normalising a normalised name changes nothing.
C3_NormalizeIdempotent ==
    /\ (fn_pc \in {"once", "twice"} /\ IsNa(fn_arg)) => fn_out = Str(<<>>)
    /\ fn_pc = "twice" => fn_out2 = fn_out

\* C3 witness: a name whose trailing blank is only exposed once the "." is removed
C3_Witness ==
    /\ fn_pc = "twice"
    /\ fn_arg = Str(<<"A", " ", ".">>)
    /\ fn_out = Str(<<"a">>)

\* An input that is missing or is no number: None, NaN, or text that is not
\* a decimal number
NonNumericInput(v) ==
    \/ v.kind \in {"none", "nan"}
    \/ v.kind = "str" /\ ~IsDigits(Strip(v.s))

\* C4 (as claimed): every non-numeric or missing input yields "N/A", never a
\* "$"-prefixed string.
C4_NonNumericGivesNA ==
    (fn_pc = "once" /\ NonNumericInput(fn_arg)) => fn_out = Str(NA)

\* C5: a numeric input is formatted by threshold: at least 10^9 as billions
\* with suffix B, at least 10^6 and below 10^9 as millions with suffix M,
\* below 10^6 as a plain amount with thousands separators; two decimals each.
C5_FormatByThreshold ==
    (fn_pc = "once" /\ fn_arg.kind = "num") =>
        LET v == fn_arg
            ge9 == ~v.neg /\ v.mil >= 1000
            ge6 == ~v.neg /\ v.mil >= 1
        IN  /\ ge9 => ReadsAsBillions(fn_out.s, v)
            /\ (ge6 /\ ~ge9) => ReadsAsMillions(fn_out.s, v)
            /\ ~ge6 => ReadsAsPlain(fn_out.s, v)

\* C5 witness: exactly 10^9 is formatted as billions
C5_Witness ==
    /\ fn_pc = "once"
    /\ fn_arg = Num(FALSE, 1000, 0)
    /\ fn_out = Str(<<"$", "1", ".", "0", "0", "B">>)

\* C6 (as claimed): 2,500,000,000 gives "$2.50B", 750,000 gives "$0.75M" and
\* 500 gives "$500.00".
C6_WorkedExamplesAsClaimed ==
    fn_pc = "once" =>
        /\ fn_arg = Num(FALSE, 2500, 0) => fn_out = Str(<<"$", "2", ".", "5", "0", "B">>)
        /\ fn_arg = Num(FALSE, 0, 750000) => fn_out = Str(<<"$", "0", ".", "7", "5", "M">>)
        /\ fn_arg = Num(FALSE, 0, 500) => fn_out = Str(<<"$", "5", "0", "0", ".", "0", "0">>)

\* C6 (amended): 2,500,000,000 gives "$2.50B", 750,000 (below 10^6) gives
\* "$750,000.00" and 500 gives "$500.00".
C6_WorkedExamples ==
    fn_pc = "once" =>
        /\ fn_arg = Num(FALSE, 2500, 0) => fn_out = Str(<<"$", "2", ".", "5", "0", "B">>)
        /\ fn_arg = Num(FALSE, 0, 750000) =>
              fn_out = Str(<<"$", "7", "5", "0", ",", "0", "0", "0", ".", "0", "0">>)
        /\ fn_arg = Num(FALSE, 0, 500) => fn_out = Str(<<"$", "5", "0", "0", ".", "0", "0">>)

\* C6 witness: 750,000 has been formatted
C6_Witness ==
    /\ fn_pc = "once"
    /\ fn_arg = Num(FALSE, 0, 750000)
    /\ fn_out.s[1] = "$"

----------------------------------------------------------------------------
(* Claims about loading and the views *)

\* No row of the metadata file has the company's normalised name
NoMetadataMatch(csv, company) ==
    MatchingRows(csv, normalize_company_name(Str(company))) = <<>>

\* C1 (as claimed): once load_data's loop is over, every record has the five
\* enrichment keys, and a record without a metadata match has "N/A" in each.
C1_AllEnrichmentKeysPresent ==
    ld_pc = "returned" =>
        \A c \in DOMAIN ld_json.company_analysis :
            /\ EnrichKeys \subseteq DOMAIN ld_json.company_analysis[c]
            /\ NoMetadataMatch(ld_csv, c) =>
                  \A k \in EnrichKeys : ld_json.company_analysis[c][k] = Str(NA)

\* C2 (as claimed): the detail view of a record without a metadata match
\* renders without raising, shows "N/A" for industry, market cap, country and
\* website, and offers no sector-trends button.
C2_LookupMissRendersNA ==
    (view.tab = TabCompany /\ view.shown.kind = "str"
        /\ NoMetadataMatch(ld_csv, view.shown.s)) =>
        /\ view.at # "display_company_info"
        /\ view.info.industry = NA
        /\ view.info.market_cap = NA
        /\ view.info.country = NA
        /\ view.info.website = NA
        /\ ~view.info.sector_button

\* The ticker symbols of a record: the pieces of its comma-separated list
SymbolsOf(company_data) ==
    IF "symbols" \in DOMAIN company_data /\ company_data["symbols"].kind = "str"
    THEN LET pieces == Split(company_data["symbols"].s, ",")
         IN  {pieces[i] : i \in 1..Len(pieces)}
    ELSE {}

\* The lower-cased term occurs in the lower-cased name or in a lower-cased symbol
MatchesSearch(d, company, text) ==
    \/ Contains(Lower(company), Lower(text))
    \/ \E s \in SymbolsOf(d.company_analysis[company]) : Contains(Lower(s), Lower(text))

\* C7 (as claimed): with no membership checkbox set, evaluating the filter
\* never fails, and a company is listed exactly when the search term occurs,
\* case-insensitively, in its name or in one of its ticker symbols.
C7_FilterIsNameOrSymbolMatch ==
    (view.tab = TabCompany /\ ~view.filter_sp500 /\ ~view.filter_non_sp500) =>
        /\ view.at # "show_company_analysis"
        /\ \A c \in Companies(data) :
              InSeq(view.filtered, c) <=> MatchesSearch(data, c, view.text)

\* The companies the filter returns for the search text of the current view
Returned(filter_sp500, filter_non_sp500) ==
    FilterCompanies(data, Sp500Companies, Lower(view.text), filter_sp500, filter_non_sp500)

SeqSet(seq) == {seq[i] : i \in 1..Len(seq)}

\* C8: for the search term of the view, the companies returned with only
\* "S&P 500" checked and those returned with only "not in the S&P 500" checked
\* are disjoint, and together they are the companies returned with neither.
C8_MembershipPartitions ==
    (view.tab = TabCompany
        /\ ~Returned(TRUE, FALSE).error /\ ~Returned(FALSE, TRUE).error
        /\ ~Returned(FALSE, FALSE).error) =>
        /\ SeqSet(Returned(TRUE, FALSE).filtered)
              \cap SeqSet(Returned(FALSE, TRUE).filtered) = {}
        /\ SeqSet(Returned(TRUE, FALSE).filtered)
              \cup SeqSet(Returned(FALSE, TRUE).filtered)
              = SeqSet(Returned(FALSE, FALSE).filtered)
        /\ (view.at # "show_company_analysis" =>
               view.filtered = Returned(view.filter_sp500, view.filter_non_sp500).filtered)

\* C8 witness: a run with only "S&P 500" checked lists a company, and the
\* same search with only "not in the S&P 500" checked lists another
C8_Witness ==
    /\ view.tab = TabCompany
    /\ view.filter_sp500 /\ ~view.filter_non_sp500
    /\ view.at # "show_company_analysis"
    /\ view.filtered # <<>>
    /\ ~Returned(FALSE, TRUE).error
    /\ Returned(FALSE, TRUE).filtered # <<>>

----------------------------------------------------------------------------
(* Claims about the chat assistant *)

\* The prompt of the chat turn the view shows
TurnQuery == view.request[Len(view.request)].content

\* C9: the context prepare_context returns holds, for every company whose
\* name occurs case-insensitively in the query, its recommendation, score and
\* explanation verbatim, and for every such sector its narrative; it is empty
\* when no company and no sector is named.
C9_ContextBySubstring ==
    view.request # <<>> =>
        LET named(n) == Contains(Lower(TurnQuery), Lower(n))
        IN  /\ \A c \in Companies(data) :
                  named(c) =>
                      LET details == data.company_analysis[c]
                      IN  /\ {"recommendation", "ultimate_strength"} \subseteq DOMAIN details
                          /\ Contains(view.context, ToText(details["recommendation"]))
                          /\ Contains(view.context, ToText(details["ultimate_strength"]))
                          /\ "explanation" \in DOMAIN details =>
                                Contains(view.context, details["explanation"].s)
            /\ \A s \in DOMAIN data.consolidated_trends :
                  named(s) => Contains(view.context, data.consolidated_trends[s].s)
            /\ ((\A c \in Companies(data) : ~named(c))
                    /\ (\A s \in DOMAIN data.consolidated_trends : ~named(s)))
                  => view.context = <<>>

\* C9 witness: a query naming company Z and sector IT in another case got
\* both into the context
C9_Witness ==
    /\ view.request # <<>>
    /\ TurnQuery = <<"z", " ", "i", "t">>
    /\ Contains(view.context, <<"Avoid">>)
    /\ Contains(view.context, <<"z shrinks">>)
    /\ Contains(view.context, <<"IT is booming">>)

\* C10: when the model call raises, get_response returns the apology, the
\* run ends without an error, and the transcript ends with the prompt
\* followed by the apology as the assistant's message.
C10_ApiFailureGivesApology ==
    view.api = "raised" =>
        /\ view.response = Apology
        /\ view.error = ""
        /\ Len(messages) >= 2
        /\ messages[Len(messages)] = Message("assistant", Apology)
        /\ messages[Len(messages) - 1] = Message("user", TurnQuery)

\* C10 witness: a turn whose model call raised, in a session where a company
\* with ticker symbols is named by the apology text itself
C10_Witness ==
    /\ view.api = "raised"
    /\ view.tab = TabChat
    /\ messages # <<>>
    /\ messages[Len(messages)].content = Apology
    /\ "symbols" \in DOMAIN data.company_analysis[CompanyZ]

----------------------------------------------------------------------------
(* Claims about which metadata row a record is enriched from *)

\* The position of the first row of the file with the company's normalised
\* name, 0 when no row has it
FirstRowNamed(csv, company) ==
    LET same(i) == normalize_company_name(csv.rows[i]["name"])
                       = normalize_company_name(Str(company))
        hits == {i \in 1..Len(csv.rows) : same(i)}
    IN  IF hits = {} THEN 0 ELSE CHOOSE i \in hits : \A j \in hits : i <= j

\* C11: once load_data's loop is over, the five copied fields of a record all
\* come from the first row in file order that has the record's normalised
\* name (a column the file lacks giving "N/A"), and a record no row is named
\* like gets no field from any row.
C11_FirstMatchingRowWins ==
    ld_pc = "returned" =>
        \A c \in DOMAIN ld_json.company_analysis :
            LET i == FirstRowNamed(ld_csv, c)
                rec == ld_json.company_analysis[c]
            IN  IF i = 0
                THEN DOMAIN rec \cap EnrichKeys = {}
                ELSE \A k \in EnrichKeys :
                        /\ k \in DOMAIN rec
                        /\ rec[k] = IF ColumnOf(k) \in ld_csv.cols
                                    THEN ld_csv.rows[i][ColumnOf(k)]
                                    ELSE Str(NA)

\* C11 witness: two rows are named like "Ab." and differ in their cells; the
\* record was enriched and holds the first row's country
C11_Witness ==
    /\ ld_pc = "returned"
    /\ Len(ld_csv.rows) = 2
    /\ FirstRowNamed(ld_csv, CompanyAb) = 1
    /\ normalize_company_name(ld_csv.rows[2]["name"]) = normalize_company_name(Str(CompanyAb))
    /\ ld_csv.rows[1]["country"] # ld_csv.rows[2]["country"]
    /\ ld_json.company_analysis[CompanyAb]["country"] = ld_csv.rows[1]["country"]

----------------------------------------------------------------------------
(* Claims about the session *)

\* C12: a run that shows the acknowledgement of a suggestion leaves
\* selected_company, selected_sector, active_tab, the chat transcript and the
\* loaded dataset as they were.
C12_SuggestionChangesNothing ==
    [][(view'.tab = TabSuggest /\ view'.ack # <<>>) =>
           UNCHANGED <<selected_company, selected_sector, active_tab, messages, data>>]_vars

\* C12 witness: a suggestion was acknowledged in a session that had a
\* selected company and a transcript to lose
C12_Witness ==
    /\ view.tab = TabSuggest
    /\ view.ack \in Suggestions
    /\ selected_company # None
    /\ messages # <<>>

\* C13 (as claimed): the request of a chat turn is the transcript as it was
\* before the turn, cut to its last five messages, followed by the new query
\* as the final message: the query is there once and the request holds at
\* most six messages.
C13_RequestIsHistoryThenQuery ==
    [][(Len(messages') > Len(messages) /\ view'.request # <<>>) =>
           LET query == messages'[Len(messages) + 1]
           IN  /\ query.role = "user"
               /\ view'.request = LastN(messages, HistoryWindow) \o <<query>>
               /\ Len(view'.request) <= HistoryWindow + 1
               /\ Cardinality({i \in 1..Len(view'.request) : view'.request[i] = query})
                     = 1 + Cardinality({i \in 1..Len(LastN(messages, HistoryWindow)) :
                                           LastN(messages, HistoryWindow)[i] = query})]_vars

\* Roles alternate from "user": odd positions "user", even ones "assistant"
Alternating(msgs) ==
    \A i \in 1..Len(msgs) : msgs[i].role = IF i % 2 = 1 THEN "user" ELSE "assistant"

\* C14 (as claimed): every run leaves the transcript it found as a prefix of
\* the one it leaves, and the transcript it leaves alternates from "user" and
\* ends with an assistant message: each user message has got its one reply
\* when the run that stored it is over, also when that run failed.
C14_TranscriptAlternates ==
    [][/\ Len(messages') >= Len(messages)
       /\ SubSeq(messages', 1, Len(messages)) = messages
       /\ Alternating(messages')
       /\ Len(messages') % 2 = 0]_vars

\* C15 (as claimed): the run that follows navigate_to_company(c) renders
\* Company Analysis with neither checkbox set, c is in the filtered list, and
\* c is the company whose details are displayed.
C15_NavigationShowsTheCompany ==
    [][\A c \in Companies(data) :
           navigate_to_company(c) =>
               /\ view'.tab = TabCompany
               /\ ~view'.filter_sp500 /\ ~view'.filter_non_sp500
               /\ InSeq(view'.filtered, c)
               /\ view'.shown = Str(c)]_vars

\* C16: active_tab is "Chat" at first and always one of the five navigation
\* keys; a run that changes it is a sidebar button press, navigate_to_company
\* (to "Company Analysis") or navigate_to_sector (to "Sector Trends"); and
\* every run renders the one view of the active tab.
C16_ActiveTabIsANavKey ==
    /\ active_tab = TabChat
    /\ [](active_tab \in NavKeys)
    /\ [][/\ view'.tab = active_tab'
          /\ active_tab' # active_tab =>
                \/ \E key \in NavKeys : PressNav(key)
                \/ active_tab' = TabCompany /\ \E c \in Companies(data) : navigate_to_company(c)
                \/ active_tab' = TabSector /\ navigate_to_sector]_vars

\* C16 witness: Sector Trends is shown after both navigation functions have
\* changed the tab
C16_Witness ==
    /\ active_tab = TabSector
    /\ view.tab = TabSector
    /\ selected_company # None
    /\ selected_sector # None

====
